---- MODULE Spec2Model ----
(***************************************************************************)
(* Semantic-analysis pass of deimoslang (src/src/deimoslang/sem.py).       *)
(*                                                                         *)
(* The recursive walk of Analyzer.sem_stmt is modelled as a stack machine: *)
(* `frames` is the Python call stack of the sem_stmt calls in progress,    *)
(* one frame per compound statement whose body (a StmtList) is being       *)
(* walked.  The input program is not fixed in advance: every step draws    *)
(* the next statement of the StmtList being walked from a bounded set, so  *)
(* the behaviours of the model are the analyses of all programs within     *)
(* the bounds, visited statement by statement in source order.             *)
(***************************************************************************)
EXTENDS Integers, Sequences, FiniteSets, TLC

\* ---------------------------------------------------------------- bounds
\* The input programs are drawn from families, each bounded in the number of
\* statements read and in the nesting of compound statements.
MaxStmts      == 3   \* programs over every statement kind, malformed ones too
MaxDepth      == 3
MaxLifeStmts  == 5   \* routines, counted loops, conditionals, returns, breaks
MaxLifeDepth  == 4
MaxCallStmts  == 4   \* routines, calls, conditionals, loops
MaxCallDepth  == 2
MaxCtrlStmts  == 4   \* routines, loops, conditionals, returns, breaks
MaxCtrlDepth  == 3
MaxExecStmts  == 4   \* counted and post-condition loops around commands
MaxExecDepth  == 2
MaxScopeOps   == 4   \* direct uses of one Scope tree: calls that changed it
MaxScopeDepth == 2   \* and the scopes from the root to the current one
MaxScopeSyms  == 2   \* and the symbols passed to the calls

Names     == {"a", "b"}          \* routine names the input may use
Selectors == {"p1"}              \* player selectors of commands

StmtKinds ==
    {"BlockDefStmt", "CallStmt", "CommandStmt", "IfStmt", "LoopStmt",
     "WhileStmt", "UntilStmt", "TimesStmt", "ReturnStmt", "BreakStmt",
     "DefVarStmt", "WriteVarStmt", "KillVarStmt", "Unhandled"}

\* kinds: the statement kinds that occur; names: the routine names;
\* wellformed: every routine name and call target is an identifier;
\* nums: the counts of the counted loops
AnyProgram ==
    [kinds |-> StmtKinds, names |-> {"a"}, wellformed |-> FALSE, nums |-> {0, 2},
     stmts |-> MaxStmts, depth |-> MaxDepth]
LifetimeProgram ==
    [kinds |-> {"BlockDefStmt", "TimesStmt", "IfStmt", "ReturnStmt", "BreakStmt"},
     names |-> {"a"}, wellformed |-> TRUE, nums |-> {2},
     stmts |-> MaxLifeStmts, depth |-> MaxLifeDepth]
CallProgram ==
    [kinds |-> {"BlockDefStmt", "CallStmt", "IfStmt", "LoopStmt"},
     names |-> Names, wellformed |-> TRUE, nums |-> {},
     stmts |-> MaxCallStmts, depth |-> MaxCallDepth]
ControlProgram ==
    [kinds |-> {"BlockDefStmt", "LoopStmt", "IfStmt", "ReturnStmt", "BreakStmt"},
     names |-> {"a"}, wellformed |-> TRUE, nums |-> {},
     stmts |-> MaxCtrlStmts, depth |-> MaxCtrlDepth]
ExecProgram ==
    [kinds |-> {"TimesStmt", "UntilStmt", "CommandStmt"},
     names |-> {}, wellformed |-> TRUE, nums |-> {0, 3},
     stmts |-> MaxExecStmts, depth |-> MaxExecDepth]
\* not a program: the methods of class Scope called one after another
ScopeCalls ==
    [kinds |-> {}, names |-> {}, wellformed |-> TRUE, nums |-> {},
     stmts |-> MaxScopeOps, depth |-> MaxScopeDepth]

VARIABLES
    scopes,               \* Analyzer.scope and its parent chain, root first
    next_sym_id,          \* Analyzer._next_sym_id
    block_defs,           \* Analyzer._block_defs
    stmts,                \* Analyzer._stmts once analyze_program assigned it
    block_nesting_level,  \* Analyzer._block_nesting_level
    loop_nesting_level,   \* Analyzer._loop_nesting_level
    loop_nesting_stack,   \* Analyzer._loop_nesting_stack
    defnode,              \* Symbol.defnode, by symbol id
    frames,               \* sem_stmt calls in progress, outermost first
    pc,                   \* "run", "done" or "error"
    err,                  \* message of the SemError raised, "" if none
    created,              \* every Symbol constructed so far, in order
    last,                 \* the sem_stmt call that returned most recently
    nstmts,               \* statements read so far
    input                 \* the family the program being read belongs to

vars == <<scopes, next_sym_id, block_defs, stmts, block_nesting_level,
          loop_nesting_level, loop_nesting_stack, defnode, frames, pc, err,
          created, last, nstmts, input>>

\* ------------------------------------------------------------- sequences
Last(s)    == s[Len(s)]
Front(s)   == SubSeq(s, 1, Len(s) - 1)
SetTop(s, x) == [s EXCEPT ![Len(s)] = x]
Range(s)   == {s[i] : i \in 1..Len(s)}
Remove(s, x) ==   \* list.remove: drops the first occurrence
    LET i == CHOOSE k \in 1..Len(s) : s[k] = x /\ \A j \in 1..(k-1) : s[j] # x
    IN  SubSeq(s, 1, i - 1) \o SubSeq(s, i + 1, Len(s))

\* ------------------------------------------------- symbols and AST nodes
Symbol(literal, id, kind) == [literal |-> literal, id |-> id, kind |-> kind]
NoSymbol == Symbol("", -1, "none")

IdentExpression(ident)  == [kind |-> "IdentExpression", ident |-> ident]
SymExpression(sym)      == [kind |-> "SymExpression", sym |-> sym]
NumberExpression(n)     == [kind |-> "NumberExpression", number |-> n]
ReadVarExpr(loc)        == [kind |-> "ReadVarExpr", loc |-> loc]
GreaterExpression(l, r) == [kind |-> "GreaterExpression", lhs |-> l, rhs |-> r]
SubExpression(l, r)     == [kind |-> "SubExpression", lhs |-> l, rhs |-> r]
UnaryExpression(op, e)  == [kind |-> "UnaryExpression", operator |-> op, expr |-> e]
\* a condition written by the user; the analyzer never looks inside it
GuardExpression(g)      == [kind |-> "Expression", guard |-> g]

None == [kind |-> "None"]
StmtList(ss)            == [kind |-> "StmtList", stmts |-> ss]
BlockDefStmt(name, body) == [kind |-> "BlockDefStmt", name |-> name, body |-> body]
CallStmt(name)          == [kind |-> "CallStmt", name |-> name]
CommandStmt(sel)        == [kind |-> "CommandStmt", player_selector |-> sel]
IfStmt(e, bt, bf)       == [kind |-> "IfStmt", expr |-> e, branch_true |-> bt, branch_false |-> bf]
LoopStmt(body)          == [kind |-> "LoopStmt", body |-> body]
WhileStmt(e, body)      == [kind |-> "WhileStmt", expr |-> e, body |-> body]
UntilRegion(e, body)    == [kind |-> "UntilRegion", expr |-> e, body |-> body]
ReturnStmt              == [kind |-> "ReturnStmt"]
BreakStmt               == [kind |-> "BreakStmt"]
DefVarStmt(sym)         == [kind |-> "DefVarStmt", sym |-> sym]
WriteVarStmt(sym, e)    == [kind |-> "WriteVarStmt", sym |-> sym, expr |-> e]
KillVarStmt(sym)        == [kind |-> "KillVarStmt", sym |-> sym]

\* ------------------------------------------------------------- class Scope
\* A Scope without its parent pointer: the parent of scopes[i] is scopes[i-1].
\* id is the identity of the object (the root is <<>>, the n-th Scope made
\* with parent p is p.id \o <<n>>) and opened counts the Scopes made with
\* this one as parent.
Scope(is_block) ==
    [syms |-> <<>>, unique_player_selectors |-> {}, active_vars |-> <<>>,
     cleaned_vars |-> {}, is_block |-> is_block, id |-> <<>>, opened |-> 0]

ChildOf(self, scope) == [scope EXCEPT !.id = Append(self.id, self.opened + 1)]

new_block(self) == ChildOf(self, Scope(TRUE))

\* a branch scope made with the flag of a block scope
new_branch_as_block(self) ==
    ChildOf(self, [Scope(TRUE) EXCEPT !.active_vars = self.active_vars])
new_branch_empty(self) == ChildOf(self, Scope(FALSE))
new_branch(self) ==
    ChildOf(self, [Scope(FALSE) EXCEPT !.active_vars = self.active_vars])

\* `self.scope = child` for a child just made from the current scope
Enter(chain, child) ==
    Append(SetTop(chain, [Last(chain) EXCEPT !.opened = @ + 1]), child)

\* the last block symbol of that name in one scope's _syms, NoSymbol if none
LookupLocal(syms, literal) ==
    LET hits == {i \in 1..Len(syms) : syms[i].kind = "block" /\ syms[i].literal = literal}
    IN  IF hits = {} THEN NoSymbol
        ELSE syms[CHOOSE i \in hits : \A j \in hits : j <= i]

\* resolution by name alone: the first routine of that name ever declared
lookup_block_by_name_global(chain, literal) ==
    LET hits == {k \in 1..Len(created) :
                    created[k].kind = "block" /\ created[k].literal = literal}
    IN  IF hits = {} THEN NoSymbol
        ELSE created[CHOOSE k \in hits : \A j \in hits : k <= j]
lookup_block_by_name_local(chain, literal) == LookupLocal(Last(chain).syms, literal)
RECURSIVE lookup_block_by_name(_, _)
lookup_block_by_name(chain, literal) ==
    IF chain = <<>> THEN NoSymbol      \* raise SemError("Unable to find symbol ...")
    ELSE LET sym == LookupLocal(Last(chain).syms, literal)
         IN  IF sym # NoSymbol THEN sym
             ELSE lookup_block_by_name(Front(chain), literal)

\* the walk that does not stop at a block scope
RECURSIVE is_block_local_var_nostop(_, _)
is_block_local_var_nostop(chain, sym) ==
    IF chain = <<>> THEN FALSE
    ELSE IF sym \in Range(Last(chain).syms) THEN TRUE
    ELSE is_block_local_var_nostop(Front(chain), sym)

RECURSIVE is_block_local_var(_, _)
is_block_local_var(chain, sym) ==
    LET cur == Last(chain)
    IN  IF sym \in Range(cur.syms) THEN TRUE
        ELSE IF cur.is_block THEN FALSE
        ELSE is_block_local_var(Front(chain), sym)

put_sym(self, sym) == [self EXCEPT !.syms = Append(@, sym)]

\* activate_var and kill_var give the scope chain with the current scope
\* updated, and the message of the SemError they raise ("" if none)
activate_var_silent(chain, sym) ==
    [err |-> "",
     scopes |-> SetTop(chain, [Last(chain) EXCEPT !.active_vars = Append(@, sym)])]
activate_var(chain, sym) ==
    IF sym \in Range(Last(chain).active_vars)
    THEN [err |-> "Attempted to activate an already active variable", scopes |-> chain]
    ELSE [err |-> "",
          scopes |-> SetTop(chain, [Last(chain) EXCEPT !.active_vars = Append(@, sym)])]

\* kill_var on lists that branch scopes share with their parents: the kill
\* shows in every scope up to the nearest block scope
RECURSIVE kill_shared(_, _)
kill_shared(chain, sym) ==
    LET cur == Last(chain)
        dead == [cur EXCEPT !.cleaned_vars = @ \cup {sym},
                            !.active_vars = SelectSeq(@, LAMBDA x : x # sym)]
    IN  IF cur.is_block \/ Len(chain) = 1 THEN SetTop(chain, dead)
        ELSE Append(kill_shared(Front(chain), sym), dead)

kill_var_shared(chain, sym) ==
    IF ~ is_block_local_var(chain, sym)
    THEN [err |-> "Attempted to kill a variable that isn't local to the current block",
          scopes |-> chain]
    ELSE IF sym \notin Range(Last(chain).active_vars)
    THEN [err |-> "Attempted to kill an inactive variable", scopes |-> chain]
    ELSE [err |-> "", scopes |-> kill_shared(chain, sym)]

kill_var(chain, sym) ==
    IF ~ is_block_local_var(chain, sym)
    THEN [err |-> "Attempted to kill a variable that isn't local to the current block",
          scopes |-> chain]
    ELSE IF sym \notin Range(Last(chain).active_vars)
    THEN [err |-> "Attempted to kill an inactive variable", scopes |-> chain]
    ELSE [err |-> "",
          scopes |-> SetTop(chain, [Last(chain) EXCEPT
                                      !.cleaned_vars = @ \cup {sym},
                                      !.active_vars = Remove(@, sym)])]

\* ---------------------------------------------------------- class Analyzer
\* what a sem_stmt call finds when it begins
Entry ==
    [scope |-> Last(scopes),
     collected |-> Len(block_defs),
     block_nesting_level |-> block_nesting_level,
     loop_nesting_level |-> loop_nesting_level,
     loop_nesting_stack |-> loop_nesting_stack]

\* a sem_stmt call in progress: its locals, and what it found when it began
Frame(kind) ==
    [kind |-> kind, out |-> <<>>, sym |-> NoSymbol, expr |-> None,
     num |-> 0, branch_true |-> None, phase |-> "", entry |-> Entry]

\* Analyzer.__init__, about to analyse a program of the given family
InitOf(family) ==
    /\ scopes = <<Scope(TRUE)>>
    /\ next_sym_id = 0
    /\ block_defs = <<>>
    /\ stmts = <<>>
    /\ block_nesting_level = 0
    /\ loop_nesting_level = 0
    /\ loop_nesting_stack = <<>>
    /\ defnode = [i \in {} |-> None]
    /\ frames = <<Frame("analyze_program")>>
    /\ pc = "run"
    /\ err = ""
    /\ created = <<>>
    /\ last = [stmt |-> None, res |-> None, seq |-> 0]
    /\ nstmts = 0
    /\ input = family

gen_sym_id_stuck(n) == [result |-> n, next_sym_id |-> n]
gen_sym_id(n) == [result |-> n, next_sym_id |-> n + 1]

gen_block_sym(name, n) == Symbol(name, gen_sym_id(n).result, "block")

gen_var_sym(n) == Symbol(":anonymous:", gen_sym_id(n).result, "variable")

gen_label_sym(n) == Symbol(":anonymous", gen_sym_id(n).result, "label")

\* def_var: the new variable symbol, declared and activated in the current scope
def_var(chain, n) ==
    LET var_sym == gen_var_sym(n)
        a == activate_var(SetTop(chain, put_sym(Last(chain), var_sym)), var_sym)
    IN  [err |-> a.err, scopes |-> a.scopes, sym |-> var_sym]

mark_var_dead_noop(chain, sym) == [err |-> "", scopes |-> chain]
mark_var_dead(chain, sym) == kill_var(chain, sym)

\* The loop of gen_cleanup_all_vars.  reversed(list) is an iterator holding an
\* index into the live list; it yields list[index] while 0 <= index < len(list)
\* (1 <= index <= Len here) and the list shrinks under it as the variables die.
RECURSIVE cleanup_iter(_, _, _)
cleanup_iter(chain, index, res) ==
    IF index >= 1 /\ index <= Len(Last(chain).active_vars)
    THEN LET var == Last(chain).active_vars[index]
             k == mark_var_dead(chain, var)
         IN  IF k.err # ""
             THEN [err |-> k.err, scopes |-> k.scopes, res |-> StmtList(res)]
             ELSE cleanup_iter(k.scopes, index - 1, Append(res, KillVarStmt(var)))
    ELSE [err |-> "", scopes |-> chain, res |-> StmtList(res)]

gen_cleanup_all_vars_skip(chain) ==
    cleanup_iter(chain, Len(Last(chain).active_vars) - 1, <<>>)
gen_cleanup_all_vars(chain) ==
    cleanup_iter(chain, Len(Last(chain).active_vars), <<>>)

sem_expr(expr) == expr

\* case ReturnStmt of sem_stmt, as a function of the scope chain and the
\* routine depth: the error raised, the scope chain afterwards and the result
sem_ReturnStmt(chain, level) ==
    IF level <= 0
    THEN [err |-> "Return used outside of block scope", scopes |-> chain, res |-> None]
    ELSE LET c == gen_cleanup_all_vars(chain)
         IN  [err |-> c.err, scopes |-> c.scopes,
              res |-> StmtList(<<c.res, ReturnStmt>>)]

\* the decrement a counted loop appends to its body, and its loop condition
TimesDecrement(var_sym) ==
    WriteVarStmt(var_sym, SubExpression(ReadVarExpr(SymExpression(var_sym)), NumberExpression(1)))

TimesCond_ge(var_sym) ==
    GreaterExpression(ReadVarExpr(SymExpression(var_sym)), NumberExpression(-1))
TimesCond(var_sym) ==
    GreaterExpression(ReadVarExpr(SymExpression(var_sym)), NumberExpression(0))

\* the tree a counted loop is rewritten to
TimesResult(var_sym, num, body) ==
    StmtList(<<DefVarStmt(var_sym),
               WriteVarStmt(var_sym, NumberExpression(num)),
               WhileStmt(TimesCond(var_sym), body),
               KillVarStmt(var_sym)>>)

UntilResult_same(expr, body) ==
    IfStmt(expr,
           StmtList(<<>>),
           StmtList(<<UntilRegion(expr, WhileStmt(expr, body))>>))
\* the tree a post-condition loop is rewritten to
UntilResult(expr, body) ==
    IfStmt(expr,
           StmtList(<<>>),
           StmtList(<<UntilRegion(expr, WhileStmt(UnaryExpression("not", expr), body))>>))

\* ---- the walk -----------------------------------------------------------
\* `if semmed := self.sem_stmt(inner): res.append(semmed)` in the caller
Emit(fs, res) ==
    IF res.kind = "None" THEN fs
    ELSE SetTop(fs, [Last(fs) EXCEPT !.out = Append(@, res)])

Reading(kind) ==
    /\ pc = "run"
    /\ kind \in input.kinds
    /\ nstmts < input.stmts
    /\ nstmts' = nstmts + 1
    /\ UNCHANGED input
Opening(kind) == Reading(kind) /\ Len(frames) <= input.depth
Closing(kind) ==
    /\ pc = "run"
    /\ Last(frames).kind = kind
    /\ UNCHANGED <<nstmts, input>>

\* raise SemError(msg): the run is over, whatever was mutated stays mutated
Raise(stmt, msg) ==
    /\ pc' = "error"
    /\ err' = msg
    /\ last' = [stmt |-> stmt, res |-> None, seq |-> last.seq + 1]
    /\ UNCHANGED <<stmts, frames>>

\* the sem_stmt call on stmt returns res to the frames fs (of a compound
\* statement, stmt holds what was read before its body)
Return(stmt, fs, res) ==
    /\ frames' = Emit(fs, res)
    /\ last' = [stmt |-> stmt, res |-> res, seq |-> last.seq + 1]
    /\ UNCHANGED <<pc, err, stmts>>

\* open_block .. close_loop take the scope chain they start from, because
\* the handlers run them after other changes to the current scope
open_block_flat(chain) ==
    /\ scopes' = Enter(chain, new_block(Last(chain)))
    /\ loop_nesting_stack' = Append(loop_nesting_stack, loop_nesting_level)
    /\ loop_nesting_level' = 0
    /\ block_nesting_level' = 1
open_block(chain) ==
    /\ scopes' = Enter(chain, new_block(Last(chain)))
    /\ loop_nesting_stack' = Append(loop_nesting_stack, loop_nesting_level)
    /\ loop_nesting_level' = 0
    /\ block_nesting_level' = block_nesting_level + 1

close_block_norestore(chain) ==
    /\ scopes' = Front(chain)
    /\ loop_nesting_level' = 0
    /\ loop_nesting_stack' = Front(loop_nesting_stack)
    /\ block_nesting_level' = block_nesting_level - 1
close_block(chain) ==
    /\ scopes' = Front(chain)
    /\ loop_nesting_level' = Last(loop_nesting_stack)
    /\ loop_nesting_stack' = Front(loop_nesting_stack)
    /\ block_nesting_level' = block_nesting_level - 1

\* a loop body that hands its declarations to the scope around it
close_loop_export(chain) ==
    /\ scopes' = SetTop(Front(chain),
                        [Last(Front(chain)) EXCEPT !.syms = @ \o Last(chain).syms])
    /\ loop_nesting_level' = loop_nesting_level - 1
close_loop_stay(chain) ==
    /\ scopes' = chain
    /\ loop_nesting_level' = loop_nesting_level - 1
close_loop(chain) ==
    /\ scopes' = Front(chain)
    /\ loop_nesting_level' = loop_nesting_level - 1

open_loop(chain) ==
    /\ scopes' = Enter(chain, new_branch(Last(chain)))
    /\ loop_nesting_level' = loop_nesting_level + 1

\* what the input holds of a compound statement before its body is read
Header(kind) == [kind |-> kind]

\* a routine body as analysed: the statements written in it, and the
\* ReturnStmt that case BlockDefStmt appended to it before the walk
BlockBody_noreturn(out, ret) == out
BlockBody(out, ret) == Append(out, ret)

\* case BlockDefStmt returns None: the definition is not left where it stood
BlockDefResult_inline(stmt) == stmt
BlockDefResult(stmt) == None

\* a definition that declares its routine only after the body was walked
sem_BlockDefStmt_open_late(name) ==
    /\ Opening("BlockDefStmt")
    /\ IF name.kind # "IdentExpression"
       THEN /\ Raise(Header("BlockDefStmt"), "Only IdentExpression is allowed during block declaration")
            /\ UNCHANGED <<scopes, next_sym_id, block_defs, block_nesting_level,
                           loop_nesting_level, loop_nesting_stack, defnode, created>>
       ELSE LET sym == gen_block_sym(name.ident, next_sym_id)
            IN  /\ next_sym_id' = gen_sym_id(next_sym_id).next_sym_id
                /\ created' = Append(created, sym)
                /\ open_block(scopes)
                /\ frames' = Append(frames, [Frame("BlockDefStmt") EXCEPT !.sym = sym])
                /\ UNCHANGED <<block_defs, defnode, stmts, pc, err, last>>

sem_BlockDefStmt_open(name) ==
    /\ Opening("BlockDefStmt")
    /\ IF name.kind # "IdentExpression"
       THEN /\ Raise(Header("BlockDefStmt"), "Only IdentExpression is allowed during block declaration")
            /\ UNCHANGED <<scopes, next_sym_id, block_defs, block_nesting_level,
                           loop_nesting_level, loop_nesting_stack, defnode, created>>
       ELSE LET sym == gen_block_sym(name.ident, next_sym_id)
                declared == SetTop(scopes, put_sym(Last(scopes), sym))
            IN  /\ next_sym_id' = gen_sym_id(next_sym_id).next_sym_id
                /\ created' = Append(created, sym)
                /\ open_block(declared)
                /\ frames' = Append(frames, [Frame("BlockDefStmt") EXCEPT !.sym = sym])
                /\ UNCHANGED <<block_defs, defnode, stmts, pc, err, last>>

\* a collected list kept in the order of the symbol ids
InsertById(defs, stmt) ==
    SelectSeq(defs, LAMBDA d : d.name.sym.id < stmt.name.sym.id)
    \o <<stmt>>
    \o SelectSeq(defs, LAMBDA d : d.name.sym.id > stmt.name.sym.id)

sem_BlockDefStmt_close_by_id ==
    /\ Closing("BlockDefStmt")
    /\ LET f == Last(frames)
           r == sem_ReturnStmt(scopes, block_nesting_level)
           body == StmtList(BlockBody(f.out, r.res))
           stmt == BlockDefStmt(SymExpression(f.sym), body)
       IN  IF r.err # ""
           THEN /\ Raise(ReturnStmt, r.err)
                /\ scopes' = r.scopes
                /\ UNCHANGED <<next_sym_id, block_defs, block_nesting_level,
                               loop_nesting_level, loop_nesting_stack, defnode,
                               created>>
           ELSE /\ close_block(r.scopes)
                /\ defnode' = (f.sym.id :> stmt) @@ defnode
                /\ block_defs' = InsertById(block_defs, stmt)
                /\ Return(Header("BlockDefStmt"), Front(frames), BlockDefResult(stmt))
                /\ UNCHANGED <<next_sym_id, created>>

\* the end of a routine body: the appended ReturnStmt is analysed, the
\* StmtList returns, and the rest of case BlockDefStmt runs
sem_BlockDefStmt_close ==
    /\ Closing("BlockDefStmt")
    /\ LET f == Last(frames)
           r == sem_ReturnStmt(scopes, block_nesting_level)
           body == StmtList(BlockBody(f.out, r.res))
           stmt == BlockDefStmt(SymExpression(f.sym), body)
       IN  IF r.err # ""
           THEN /\ Raise(ReturnStmt, r.err)
                /\ scopes' = r.scopes
                /\ UNCHANGED <<next_sym_id, block_defs, block_nesting_level,
                               loop_nesting_level, loop_nesting_stack, defnode,
                               created>>
           ELSE /\ close_block(r.scopes)
                /\ defnode' = (f.sym.id :> stmt) @@ defnode
                /\ block_defs' = Append(block_defs, stmt)
                /\ Return(Header("BlockDefStmt"), Front(frames), BlockDefResult(stmt))
                /\ UNCHANGED <<next_sym_id, created>>

\* the targets a call may have: an identifier, or in a program that is not
\* well-formed a resolved reference or an expression of another shape
CallTargets ==
    {IdentExpression(n) : n \in input.names}
    \cup IF input.wellformed THEN {}
         ELSE {SymExpression(s) : s \in {t \in Range(created) : t.kind = "block"}}
              \cup {NumberExpression(0)}

sem_CallStmt(name) ==
    /\ Reading("CallStmt")
    /\ UNCHANGED <<scopes, next_sym_id, block_defs, block_nesting_level,
                   loop_nesting_level, loop_nesting_stack, defnode, created>>
    /\ IF name.kind = "IdentExpression"
       THEN LET sym == lookup_block_by_name(scopes, name.ident)
            IN  IF sym = NoSymbol
                THEN Raise(CallStmt(name), "Unable to find symbol in scope")
                ELSE Return(CallStmt(name), frames, CallStmt(SymExpression(sym)))
       ELSE IF name.kind = "SymExpression"
       THEN Return(CallStmt(name), frames, CallStmt(SymExpression(name.sym)))
       ELSE Raise(CallStmt(name), "Malformed call")

\* one selector set for the whole program, kept in the root scope
sem_CommandStmt_root(sel) ==
    /\ Reading("CommandStmt")
    /\ scopes' = [scopes EXCEPT ![1].unique_player_selectors = @ \cup {sel}]
    /\ Return(CommandStmt(sel), frames, CommandStmt(sel))
    /\ UNCHANGED <<next_sym_id, block_defs, block_nesting_level,
                   loop_nesting_level, loop_nesting_stack, defnode, created>>

sem_CommandStmt(sel) ==
    /\ Reading("CommandStmt")
    /\ scopes' = SetTop(scopes, [Last(scopes) EXCEPT !.unique_player_selectors = @ \cup {sel}])
    /\ Return(CommandStmt(sel), frames, CommandStmt(sel))
    /\ UNCHANGED <<next_sym_id, block_defs, block_nesting_level,
                   loop_nesting_level, loop_nesting_stack, defnode, created>>

sem_IfStmt_open(expr) ==
    /\ Opening("IfStmt")
    /\ scopes' = Enter(scopes, new_branch(Last(scopes)))
    /\ frames' = Append(frames, [Frame("IfStmt") EXCEPT !.expr = sem_expr(expr), !.phase = "branch_true"])
    /\ UNCHANGED <<next_sym_id, block_defs, stmts, block_nesting_level,
                   loop_nesting_level, loop_nesting_stack, defnode, pc, err,
                   created, last>>

\* the true arm is done: its branch scope is dropped and the false arm starts
sem_IfStmt_else ==
    /\ Closing("IfStmt")
    /\ Last(frames).phase = "branch_true"
    /\ LET parent == Front(scopes)
       IN  scopes' = Enter(parent, new_branch(Last(parent)))
    /\ frames' = SetTop(frames, [Last(frames) EXCEPT
                                   !.branch_true = StmtList(Last(frames).out),
                                   !.out = <<>>,
                                   !.phase = "branch_false"])
    /\ last' = [stmt |-> Header("StmtList"), res |-> StmtList(Last(frames).out), seq |-> last.seq + 1]
    /\ UNCHANGED <<next_sym_id, block_defs, stmts, block_nesting_level,
                   loop_nesting_level, loop_nesting_stack, defnode, pc, err,
                   created>>

sem_IfStmt_close ==
    /\ Closing("IfStmt")
    /\ Last(frames).phase = "branch_false"
    /\ scopes' = Front(scopes)
    /\ LET f == Last(frames)
       IN  Return(Header("IfStmt"), Front(frames), IfStmt(f.expr, f.branch_true, StmtList(f.out)))
    /\ UNCHANGED <<next_sym_id, block_defs, block_nesting_level,
                   loop_nesting_level, loop_nesting_stack, defnode, created>>

sem_LoopStmt_open ==
    /\ Opening("LoopStmt")
    /\ open_loop(scopes)
    /\ frames' = Append(frames, Frame("LoopStmt"))
    /\ UNCHANGED <<next_sym_id, block_defs, stmts, block_nesting_level,
                   loop_nesting_stack, defnode, pc, err, created, last>>

sem_LoopStmt_close ==
    /\ Closing("LoopStmt")
    /\ close_loop(scopes)
    /\ Return(Header("LoopStmt"), Front(frames), LoopStmt(StmtList(Last(frames).out)))
    /\ UNCHANGED <<next_sym_id, block_defs, block_nesting_level,
                   loop_nesting_stack, defnode, created>>

sem_WhileStmt_open(expr) ==
    /\ Opening("WhileStmt")
    /\ open_loop(scopes)
    /\ frames' = Append(frames, [Frame("WhileStmt") EXCEPT !.expr = sem_expr(expr)])
    /\ UNCHANGED <<next_sym_id, block_defs, stmts, block_nesting_level,
                   loop_nesting_stack, defnode, pc, err, created, last>>

sem_WhileStmt_close ==
    /\ Closing("WhileStmt")
    /\ close_loop(scopes)
    /\ LET f == Last(frames)
       IN  Return(Header("WhileStmt"), Front(frames), WhileStmt(f.expr, StmtList(f.out)))
    /\ UNCHANGED <<next_sym_id, block_defs, block_nesting_level,
                   loop_nesting_stack, defnode, created>>

sem_UntilStmt_open(expr) ==
    /\ Opening("UntilStmt")
    /\ open_loop(scopes)
    /\ frames' = Append(frames, [Frame("UntilStmt") EXCEPT !.expr = sem_expr(expr)])
    /\ UNCHANGED <<next_sym_id, block_defs, stmts, block_nesting_level,
                   loop_nesting_stack, defnode, pc, err, created, last>>

sem_UntilStmt_close ==
    /\ Closing("UntilStmt")
    /\ close_loop(scopes)
    /\ LET f == Last(frames)
       IN  Return(Header("UntilStmt"), Front(frames), UntilResult(f.expr, StmtList(f.out)))
    /\ UNCHANGED <<next_sym_id, block_defs, block_nesting_level,
                   loop_nesting_stack, defnode, created>>

\* case TimesStmt up to the walk of the loop body: def_var, then sem_stmt of
\* the WhileStmt built around the body opens the loop
sem_TimesStmt_open(num) ==
    /\ Opening("TimesStmt")
    /\ LET d == def_var(scopes, next_sym_id)
       IN  /\ next_sym_id' = gen_sym_id(next_sym_id).next_sym_id
           /\ created' = Append(created, d.sym)
           /\ IF d.err # ""
              THEN /\ Raise(Header("TimesStmt"), d.err)
                   /\ scopes' = d.scopes
                   /\ UNCHANGED loop_nesting_level
              ELSE /\ open_loop(d.scopes)
                   /\ frames' = Append(frames, [Frame("TimesStmt") EXCEPT !.sym = d.sym, !.num = num])
                   /\ UNCHANGED <<stmts, pc, err, last>>
    /\ UNCHANGED <<block_defs, block_nesting_level, loop_nesting_stack, defnode>>

\* the end of a counted loop's body: the appended decrement passes through,
\* the WhileStmt returns, the result is built and the counter is marked dead
sem_TimesStmt_close ==
    /\ Closing("TimesStmt")
    /\ LET f == Last(frames)
           body == StmtList(Append(f.out, TimesDecrement(f.sym)))
           res == TimesResult(f.sym, f.num, body)
           k == mark_var_dead(Front(scopes), f.sym)
       IN  \* close_loop, then mark_var_dead in the scope the loop stood in
           /\ loop_nesting_level' = loop_nesting_level - 1
           /\ scopes' = k.scopes
           /\ IF k.err # ""
              THEN Raise(Header("TimesStmt"), k.err)
              ELSE Return([kind |-> "TimesStmt", num |-> f.num], Front(frames), res)
    /\ UNCHANGED <<next_sym_id, block_defs, block_nesting_level,
                   loop_nesting_stack, defnode, created>>

sem_ReturnStmt_leaf ==
    /\ Reading("ReturnStmt")
    /\ LET r == sem_ReturnStmt(scopes, block_nesting_level)
       IN  /\ scopes' = r.scopes
           /\ IF r.err # ""
              THEN Raise(ReturnStmt, r.err)
              ELSE Return(ReturnStmt, frames, r.res)
    /\ UNCHANGED <<next_sym_id, block_defs, block_nesting_level,
                   loop_nesting_level, loop_nesting_stack, defnode, created>>

sem_BreakStmt ==
    /\ Reading("BreakStmt")
    /\ IF loop_nesting_level <= 0
       THEN Raise(BreakStmt, "Break used outside of loop scope")
       ELSE Return(BreakStmt, frames, BreakStmt)
    /\ UNCHANGED <<scopes, next_sym_id, block_defs, block_nesting_level,
                   loop_nesting_level, loop_nesting_stack, defnode, created>>

\* a variable statement written in the input names a variable of the input
UserSym == Symbol(":user:", -1, "variable")

VarStmts ==
    {DefVarStmt(UserSym), WriteVarStmt(UserSym, NumberExpression(0)), KillVarStmt(UserSym)}

sem_VarStmt(stmt) ==
    /\ Reading(stmt.kind)
    /\ Return(stmt, frames, stmt)
    /\ UNCHANGED <<scopes, next_sym_id, block_defs, block_nesting_level,
                   loop_nesting_level, loop_nesting_stack, defnode, created>>

\* case _: a node of no statement kind
sem_unhandled ==
    /\ Reading("Unhandled")
    /\ Raise(Header("Unhandled"), "Unhandled statement type")
    /\ UNCHANGED <<scopes, next_sym_id, block_defs, block_nesting_level,
                   loop_nesting_level, loop_nesting_stack, defnode, created>>

\* the end of the loop of analyze_program
analyze_program_done ==
    /\ Closing("analyze_program")
    /\ stmts' = Last(frames).out
    /\ pc' = "done"
    /\ UNCHANGED <<scopes, next_sym_id, block_defs, block_nesting_level,
                   loop_nesting_level, loop_nesting_stack, defnode, frames, err,
                   created, last>>

BlockNames ==
    {IdentExpression(n) : n \in input.names}
    \cup IF input.wellformed THEN {} ELSE {SymExpression(NoSymbol)}
GuardExprs == {GuardExpression(0)}

\* ---- specifications: one per family of input programs -------------------
Init == InitOf(AnyProgram)

Next ==
    \/ \E name \in BlockNames : sem_BlockDefStmt_open(name)
    \/ sem_BlockDefStmt_close
    \/ \E name \in CallTargets : sem_CallStmt(name)
    \/ \E sel \in Selectors : sem_CommandStmt(sel)
    \/ \E expr \in GuardExprs : sem_IfStmt_open(expr)
    \/ sem_IfStmt_else
    \/ sem_IfStmt_close
    \/ sem_LoopStmt_open
    \/ sem_LoopStmt_close
    \/ \E expr \in GuardExprs : sem_WhileStmt_open(expr)
    \/ sem_WhileStmt_close
    \/ \E expr \in GuardExprs : sem_UntilStmt_open(expr)
    \/ sem_UntilStmt_close
    \/ \E num \in input.nums : sem_TimesStmt_open(num)
    \/ sem_TimesStmt_close
    \/ sem_ReturnStmt_leaf
    \/ sem_BreakStmt
    \/ \E stmt \in VarStmts : sem_VarStmt(stmt)
    \/ sem_unhandled
    \/ analyze_program_done

Spec == Init /\ [][Next]_vars

InitLife == InitOf(LifetimeProgram)

NextLife ==
    \/ \E name \in BlockNames : sem_BlockDefStmt_open(name)
    \/ sem_BlockDefStmt_close
    \/ \E expr \in GuardExprs : sem_IfStmt_open(expr)
    \/ sem_IfStmt_else
    \/ sem_IfStmt_close
    \/ \E num \in input.nums : sem_TimesStmt_open(num)
    \/ sem_TimesStmt_close
    \/ sem_ReturnStmt_leaf
    \/ sem_BreakStmt
    \/ analyze_program_done

SpecLife == InitLife /\ [][NextLife]_vars

InitCall == InitOf(CallProgram)

NextCall ==
    \/ \E name \in BlockNames : sem_BlockDefStmt_open(name)
    \/ sem_BlockDefStmt_close
    \/ \E name \in CallTargets : sem_CallStmt(name)
    \/ \E expr \in GuardExprs : sem_IfStmt_open(expr)
    \/ sem_IfStmt_else
    \/ sem_IfStmt_close
    \/ sem_LoopStmt_open
    \/ sem_LoopStmt_close
    \/ analyze_program_done

SpecCall == InitCall /\ [][NextCall]_vars

InitCtrl == InitOf(ControlProgram)

NextCtrl ==
    \/ \E name \in BlockNames : sem_BlockDefStmt_open(name)
    \/ sem_BlockDefStmt_close
    \/ \E expr \in GuardExprs : sem_IfStmt_open(expr)
    \/ sem_IfStmt_else
    \/ sem_IfStmt_close
    \/ sem_LoopStmt_open
    \/ sem_LoopStmt_close
    \/ sem_ReturnStmt_leaf
    \/ sem_BreakStmt
    \/ analyze_program_done

SpecCtrl == InitCtrl /\ [][NextCtrl]_vars

InitExec == InitOf(ExecProgram)

NextExec ==
    \/ \E sel \in Selectors : sem_CommandStmt(sel)
    \/ \E expr \in GuardExprs : sem_UntilStmt_open(expr)
    \/ sem_UntilStmt_close
    \/ \E num \in input.nums : sem_TimesStmt_open(num)
    \/ sem_TimesStmt_close
    \/ analyze_program_done

SpecExec == InitExec /\ [][NextExec]_vars

\* ---- class Scope used directly ------------------------------------------
\* The methods of Scope called in any order on the current scope of a tree
\* that starts as the analyzer's root scope; `last` holds the call, `err` the
\* message of the SemError it raised.  A call that raises or only answers
\* leaves the tree as it is.
ScopeSyms == {Symbol(":anonymous:", i, "variable") : i \in 0..(MaxScopeSyms - 1)}

Bool(b) == [kind |-> "bool", value |-> b]

ScopeCall(method, sym, res, msg) ==
    /\ pc = "run"
    /\ last' = [stmt |-> [kind |-> method, sym |-> sym], res |-> res,
                seq |-> IF scopes' = scopes THEN last.seq ELSE last.seq + 1]
    /\ err' = msg
    /\ nstmts' = IF scopes' = scopes THEN nstmts ELSE nstmts + 1
    /\ scopes' # scopes => nstmts < input.stmts
    /\ UNCHANGED <<next_sym_id, block_defs, stmts, block_nesting_level,
                   loop_nesting_level, loop_nesting_stack, defnode, frames, pc,
                   created, input>>

Scope_new_block ==
    /\ Len(scopes) < input.depth
    /\ scopes' = Enter(scopes, new_block(Last(scopes)))
    /\ ScopeCall("new_block", NoSymbol, None, "")

Scope_new_branch ==
    /\ Len(scopes) < input.depth
    /\ scopes' = Enter(scopes, new_branch(Last(scopes)))
    /\ ScopeCall("new_branch", NoSymbol, None, "")

\* the caller goes back to the parent, as `self.scope = self.scope.parent`
Scope_parent ==
    /\ Len(scopes) > 1
    /\ scopes' = Front(scopes)
    /\ ScopeCall("parent", NoSymbol, None, "")

Scope_put_sym(sym) ==
    /\ scopes' = SetTop(scopes, put_sym(Last(scopes), sym))
    /\ ScopeCall("put_sym", sym, None, "")

Scope_is_block_local_var(sym) ==
    /\ scopes' = scopes
    /\ ScopeCall("is_block_local_var", sym, Bool(is_block_local_var(scopes, sym)), "")

Scope_activate_var(sym) ==
    LET a == activate_var(scopes, sym)
    IN  /\ scopes' = a.scopes
        /\ ScopeCall("activate_var", sym, None, a.err)

Scope_kill_var(sym) ==
    LET k == kill_var(scopes, sym)
    IN  /\ scopes' = k.scopes
        /\ ScopeCall("kill_var", sym, None, k.err)

InitScope == InitOf(ScopeCalls)

NextScope ==
    \/ Scope_new_block
    \/ Scope_new_branch
    \/ Scope_parent
    \/ \E sym \in ScopeSyms : Scope_put_sym(sym)
    \/ \E sym \in ScopeSyms : Scope_is_block_local_var(sym)
    \/ \E sym \in ScopeSyms : Scope_activate_var(sym)
    \/ \E sym \in ScopeSyms : Scope_kill_var(sym)

SpecScope == InitScope /\ [][NextScope]_vars

\* ---- execution of a rewritten tree ---------------------------------------
\* The engine that runs the tree is no part of sem.py.  The statements have
\* the meaning the specification gives them: a pre-condition loop tests its
\* condition before every iteration, an until-region runs the loop it wraps,
\* break leaves the nearest loop, return leaves the routine, and a call
\* comes back.  Commands are observed, not interpreted: a user condition is
\* true once `world` commands have run, so that it can change under a loop.
Fuel     == 40     \* loop iterations granted to one execution
MaxWorld == 2      \* user conditions turn true after 0..MaxWorld commands
Worlds   == 0..MaxWorld

Event(ev, sel, id, val) == [ev |-> ev, sel |-> sel, id |-> id, val |-> val]
Env0 == [vars |-> [i \in {} |-> 0], log |-> <<>>, ncmd |-> 0, fuel |-> Fuel,
         status |-> "normal"]

RECURSIVE Eval(_, _, _)
Eval(expr, env, world) ==
    CASE expr.kind = "NumberExpression" -> expr.number
      [] expr.kind = "ReadVarExpr" -> env.vars[expr.loc.sym.id]
      [] expr.kind = "GreaterExpression" ->
            Eval(expr.lhs, env, world) > Eval(expr.rhs, env, world)
      [] expr.kind = "SubExpression" ->
            Eval(expr.lhs, env, world) - Eval(expr.rhs, env, world)
      [] expr.kind = "UnaryExpression" -> ~ Eval(expr.expr, env, world)
      [] expr.kind = "Expression" -> env.ncmd >= world

RECURSIVE Exec(_, _, _)
RECURSIVE ExecList(_, _, _, _)
RECURSIVE ExecLoop(_, _, _, _)

Exec(stmt, env, world) ==
    IF env.status # "normal" THEN env
    ELSE CASE stmt.kind = "StmtList" -> ExecList(stmt.stmts, 1, env, world)
           [] stmt.kind = "CommandStmt" ->
                [env EXCEPT !.log = Append(@, Event("command", stmt.player_selector, -1, 0)),
                            !.ncmd = @ + 1]
           [] stmt.kind = "DefVarStmt" ->
                [env EXCEPT !.log = Append(@, Event("def", "", stmt.sym.id, 0)),
                            !.vars = (stmt.sym.id :> 0) @@ @]
           [] stmt.kind = "WriteVarStmt" ->
                LET val == Eval(stmt.expr, env, world)
                IN  [env EXCEPT !.log = Append(@, Event("write", "", stmt.sym.id, val)),
                                !.vars = (stmt.sym.id :> val) @@ @]
           [] stmt.kind = "KillVarStmt" ->
                [env EXCEPT !.log = Append(@, Event("kill", "", stmt.sym.id, 0)),
                            !.vars = [i \in DOMAIN @ \ {stmt.sym.id} |-> @[i]]]
           [] stmt.kind = "IfStmt" ->
                IF Eval(stmt.expr, env, world)
                THEN Exec(stmt.branch_true, env, world)
                ELSE Exec(stmt.branch_false, env, world)
           [] stmt.kind = "WhileStmt" -> ExecLoop(stmt.expr, stmt.body, env, world)
           [] stmt.kind = "LoopStmt" ->
                ExecLoop(UnaryExpression("not", GreaterExpression(NumberExpression(0), NumberExpression(0))),
                         stmt.body, env, world)
           [] stmt.kind = "UntilRegion" -> Exec(stmt.body, env, world)
           [] stmt.kind = "BreakStmt" -> [env EXCEPT !.status = "break"]
           [] stmt.kind = "ReturnStmt" -> [env EXCEPT !.status = "return"]
           [] OTHER -> env

ExecList(ss, i, env, world) ==
    IF i > Len(ss) \/ env.status # "normal" THEN env
    ELSE ExecList(ss, i + 1, Exec(ss[i], env, world), world)

\* a pre-condition loop; status "fuel" ends an execution that ran too long
ExecLoop(cond, body, env, world) ==
    IF env.status # "normal" \/ ~ Eval(cond, env, world) THEN env
    ELSE IF env.fuel = 0 THEN [env EXCEPT !.status = "fuel"]
    ELSE LET after == Exec(body, [env EXCEPT !.fuel = @ - 1], world)
         IN  IF after.status = "break" THEN [after EXCEPT !.status = "normal"]
             ELSE ExecLoop(cond, body, after, world)

\* ---- properties ---------------------------------------------------------
\* the step is a sem_stmt call on stmt that returned or raised
Analysed(stmt) == last'.seq # last.seq /\ last'.stmt = stmt
Raised(msg) == pc' = "error" /\ err' = msg

FrameKinds == [i \in 1..Len(frames) |-> frames[i].kind]
\* the statement being read is nested in a routine definition
InRoutine == \E i \in 1..Len(frames) : frames[i].kind = "BlockDefStmt"
\* a repetition encloses the statement being read inside the innermost
\* routine body, or inside the top level if no routine encloses it
LoopKinds == {"LoopStmt", "WhileStmt", "UntilStmt", "TimesStmt"}
InLoop ==
    \E i \in 1..Len(frames) :
        /\ frames[i].kind \in LoopKinds
        /\ \A j \in (i+1)..Len(frames) : frames[j].kind # "BlockDefStmt"

\* C1: the ids of the symbols created in one run are strictly increasing in
\* the order of creation, so no two symbols share an id
C1_SymbolIdsIncrease ==
    \A i, j \in 1..Len(created) : i < j => created[i].id < created[j].id

\* three symbols of two kinds were created, with scopes opened and closed
\* in between
C1_Witness ==
    /\ Len(created) = 3
    /\ Len(scopes) = 1
    /\ {created[i].kind : i \in 1..3} = {"block", "variable"}

\* the routine symbols of that name declared in the scopes of a chain
VisibleBlocks(chain, literal) ==
    {sym \in UNION {Range(chain[i].syms) : i \in 1..Len(chain)} :
        sym.kind = "block" /\ sym.literal = literal}

\* C2: a call by identifier resolves to a routine symbol that was created
\* before the call and is declared in a scope on the caller's chain; when no
\* such symbol exists yet (the definition has not been reached) the call
\* raises 'Unable to find symbol in scope'
C2_CallsResolveBackward ==
    [][\A n \in Names :
         Analysed(CallStmt(IdentExpression(n))) =>
            IF VisibleBlocks(scopes, n) = {}
            THEN Raised("Unable to find symbol in scope")
            ELSE /\ pc' = "run"
                 /\ last'.res.kind = "CallStmt"
                 /\ last'.res.name.kind = "SymExpression"
                 /\ last'.res.name.sym \in VisibleBlocks(scopes, n)
                 /\ last'.res.name.sym \in Range(created)]_vars

\* a call inside a routine body resolved to a routine declared in an
\* enclosing scope
C2_Witness ==
    /\ pc = "run"
    /\ last.stmt = CallStmt(IdentExpression("b"))
    /\ last.res.kind = "CallStmt"
    /\ InRoutine
    /\ last.res.name.sym \notin Range(Last(scopes).syms)

\* KillVarStmts for the variables of a list, last activated first
Kills(active) ==
    [i \in 1..Len(active) |-> KillVarStmt(active[Len(active) + 1 - i])]
ReturnSequence(active) == StmtList(<<StmtList(Kills(active)), ReturnStmt>>)

\* C3: a ReturnStmt analysed inside a routine body becomes the kills of all
\* variables active in the current scope, most recently activated first,
\* followed by the ReturnStmt; so does the one appended to a routine body
C3_ReturnKillsActiveVars ==
    [][/\ (Analysed(ReturnStmt) /\ InRoutine) =>
            /\ pc' = "run"
            /\ last'.res = ReturnSequence(Last(scopes).active_vars)
       /\ (Analysed(Header("BlockDefStmt")) /\ pc' = "run") =>
            Last(Last(block_defs').body.stmts) = ReturnSequence(Last(scopes).active_vars)
      ]_vars

\* a return in a conditional inside two nested counted loops emitted the
\* kill of the inner counter, then that of the outer one
C3_Witness ==
    /\ pc = "run"
    /\ last.stmt = ReturnStmt
    /\ Last(frames).kind = "IfStmt"
    /\ Len(last.res.stmts[1].stmts) = 2
    /\ last.res.stmts[1].stmts[1].sym.id > last.res.stmts[1].stmts[2].sym.id

\* C4: a ReturnStmt raises 'Return used outside of block scope' exactly when
\* no routine definition encloses it, whatever conditionals and loops lie
\* in between and whatever routines were defined and left before it
C4_ReturnNeedsRoutine ==
    [][Analysed(ReturnStmt) =>
         IF InRoutine THEN pc' = "run"
         ELSE Raised("Return used outside of block scope")]_vars

\* a return in a loop in a routine was accepted after a routine defined in
\* the same body had been left
C4_Witness ==
    /\ pc = "run"
    /\ last.stmt = ReturnStmt
    /\ FrameKinds = <<"analyze_program", "BlockDefStmt", "LoopStmt">>
    /\ block_defs # <<>>

\* C5: a BreakStmt raises 'Break used outside of loop scope' exactly when no
\* repetition encloses it inside the innermost enclosing routine body (or top
\* level), and is returned unchanged otherwise
C5_BreakNeedsLoop ==
    [][Analysed(BreakStmt) =>
         IF InLoop THEN pc' = "run" /\ last'.res = BreakStmt
         ELSE Raised("Break used outside of loop scope")]_vars

\* a break in a loop was accepted after a routine defined in that loop had
\* been left
C5_Witness ==
    /\ pc = "run"
    /\ last.stmt = BreakStmt
    /\ FrameKinds = <<"analyze_program", "LoopStmt">>
    /\ block_defs # <<>>

\* C7: when a counted loop has been analysed, its counter is declared in the
\* scope the loop stood in, is not active there, and killing it again raises
C7_CounterDeadAfterLoop ==
    [][(last'.seq # last.seq /\ last'.stmt.kind = "TimesStmt" /\ pc' = "run") =>
         LET var_sym == Last(frames).sym
         IN  /\ Len(scopes') = Len(scopes) - 1
             /\ var_sym \in Range(Last(scopes').syms)
             /\ var_sym \notin Range(Last(scopes').active_vars)
             /\ kill_var(scopes', var_sym).err # ""]_vars

\* a counted loop of zero iterations whose body holds a return was analysed
C7_Witness ==
    /\ pc = "run"
    /\ last.stmt = [kind |-> "TimesStmt", num |-> 0]
    /\ InRoutine
    /\ last.res.stmts[3].body.stmts[1] = ReturnSequence(<<last.res.stmts[1].sym>>)

\* what the specification says running a loop does, to compare Exec with:
\* the body run `left` more times, the counter written down after each run
RECURSIVE RunCounted(_, _, _, _, _)
RunCounted(body, var_sym, left, env, world) ==
    IF left = 0 \/ env.status # "normal" THEN env
    ELSE IF env.fuel = 0 THEN [env EXCEPT !.status = "fuel"]
    ELSE LET after == Exec(body, [env EXCEPT !.fuel = @ - 1], world)
         IN  IF after.status # "normal" THEN after
             ELSE RunCounted(body, var_sym, left - 1,
                     [after EXCEPT !.log = Append(@, Event("write", "", var_sym.id, left - 1)),
                                   !.vars = (var_sym.id :> (left - 1)) @@ @],
                     world)

\* declare the counter, set it to num, run the body num times, kill it
RunTimes(body, var_sym, num, env, world) ==
    LET start == [env EXCEPT !.log = @ \o <<Event("def", "", var_sym.id, 0),
                                           Event("write", "", var_sym.id, num)>>,
                             !.vars = (var_sym.id :> num) @@ @]
        ran == RunCounted(body, var_sym, num, start, world)
    IN  IF ran.status # "normal" THEN ran
        ELSE [ran EXCEPT !.log = Append(@, Event("kill", "", var_sym.id, 0)),
                         !.vars = [i \in DOMAIN @ \ {var_sym.id} |-> @[i]]]

\* test the guard, stop if it is true, else run the body and start over
RECURSIVE RunUntil(_, _, _, _)
RunUntil(guard, body, env, world) ==
    IF env.status # "normal" \/ Eval(guard, env, world) THEN env
    ELSE IF env.fuel = 0 THEN [env EXCEPT !.status = "fuel"]
    ELSE RunUntil(guard, body, Exec(body, [env EXCEPT !.fuel = @ - 1], world), world)

\* C6: a counted loop of N over a body is rewritten to [declare v, v := N,
\* while (v > 0) { body; v := v - 1 }, kill v] with v a variable symbol no
\* other symbol shares, and running that tree runs the body N times, writing
\* v down by one after each run
C6_TimesDesugaring ==
    [][(last'.seq # last.seq /\ last'.stmt.kind = "TimesStmt" /\ pc' = "run") =>
         LET f == Last(frames)
             v == f.sym
             read == ReadVarExpr(SymExpression(v))
             body == StmtList(f.out)
             loop == WhileStmt(GreaterExpression(read, NumberExpression(0)),
                               StmtList(Append(f.out,
                                   WriteVarStmt(v, SubExpression(read, NumberExpression(1))))))
         IN  /\ last'.stmt.num = f.num
             /\ last'.res = StmtList(<<DefVarStmt(v),
                                       WriteVarStmt(v, NumberExpression(f.num)),
                                       loop,
                                       KillVarStmt(v)>>)
             /\ v.kind = "variable"
             /\ Cardinality({k \in 1..Len(created) : created[k].id = v.id}) = 1
             /\ \A world \in Worlds :
                    LET want == RunTimes(body, v, f.num, Env0, world)
                        got == Exec(last'.res, Env0, world)
                    IN  want.status = "normal" => got = want]_vars

\* a counted loop of three around one command was analysed, and running the
\* result runs the command three times
C6_Witness ==
    /\ pc = "run"
    /\ last.stmt = [kind |-> "TimesStmt", num |-> 3]
    /\ Len(last.res.stmts[3].body.stmts) = 2
    /\ last.res.stmts[3].body.stmts[1].kind = "CommandStmt"
    /\ Exec(last.res, Env0, 0).ncmd = 3
    /\ Exec(last.res, Env0, 0).status = "normal"

\* C8: running the tree of a post-condition loop runs the body zero times if
\* the guard is true on entry; otherwise it runs the body, tests the guard
\* again before every further run, and stops at the first test that is true
C8_UntilSemantics ==
    [][Analysed(Header("UntilStmt")) /\ pc' = "run" =>
         LET f == Last(frames)
             body == StmtList(f.out)
         IN  \A world \in Worlds :
                LET want == RunUntil(f.expr, body, Env0, world)
                    got == Exec(last'.res, Env0, world)
                IN  /\ Eval(f.expr, Env0, world) =>
                           got.status = "normal" /\ got.log = <<>> /\ got.fuel = Env0.fuel
                    /\ ~ Eval(f.expr, Env0, world) => got.fuel < Env0.fuel
                    /\ want.status = "normal" => got = want]_vars

\* a post-condition loop around one command was analysed; when its guard
\* turns true after two commands, running the result runs the command twice
C8_Witness ==
    /\ pc = "run"
    /\ last.stmt = Header("UntilStmt")
    /\ last.res.kind = "IfStmt"
    /\ last.res.branch_false.stmts[1].body.body.stmts = <<CommandStmt("p1")>>
    /\ Exec(last.res, Env0, 2).ncmd = 2
    /\ Exec(last.res, Env0, 2).status = "normal"

\* the statements directly inside a node
SubStmts(node) ==
    CASE node.kind = "StmtList" -> node.stmts
      [] node.kind = "IfStmt" -> <<node.branch_true, node.branch_false>>
      [] node.kind \in {"LoopStmt", "WhileStmt", "UntilRegion", "BlockDefStmt"} -> <<node.body>>
      [] OTHER -> <<>>

RECURSIVE HasBlockDef(_)
HasBlockDef(node) ==
    \/ node.kind = "BlockDefStmt"
    \/ \E i \in 1..Len(SubStmts(node)) : HasBlockDef(SubStmts(node)[i])

BlockSyms == {created[k] : k \in {i \in 1..Len(created) : created[i].kind = "block"}}

\* C9: after a successful analyze_program no routine definition is left in
\* the rewritten sequence nor inside a collected routine body, and every
\* routine definition read is in _block_defs exactly once, named by its own
\* symbol, whose defnode is that definition
C9_DefinitionsHoisted ==
    pc = "done" =>
        /\ ~ HasBlockDef(StmtList(stmts))
        /\ \A i \in 1..Len(block_defs) : ~ HasBlockDef(block_defs[i].body)
        /\ Len(block_defs) = Cardinality(BlockSyms)
        /\ \A sym \in BlockSyms :
              /\ Cardinality({i \in 1..Len(block_defs) :
                                block_defs[i].name = SymExpression(sym)}) = 1
              /\ sym.id \in DOMAIN defnode
              /\ defnode[sym.id].kind = "BlockDefStmt"
              /\ defnode[sym.id].name = SymExpression(sym)
              /\ \E i \in 1..Len(block_defs) : block_defs[i] = defnode[sym.id]

\* a run ended that read a routine defined inside a conditional inside a
\* routine
C9_Witness ==
    /\ pc = "done"
    /\ Len(block_defs) = 2
    /\ \E i \in 1..Len(block_defs[2].body.stmts) : block_defs[2].body.stmts[i].kind = "IfStmt"
    /\ stmts = <<>>

IsReturnSequence(node) ==
    /\ node.kind = "StmtList"
    /\ Len(node.stmts) = 2
    /\ node.stmts[2] = ReturnStmt
    /\ node.stmts[1].kind = "StmtList"
    /\ \A k \in 1..Len(node.stmts[1].stmts) : node.stmts[1].stmts[k].kind = "KillVarStmt"

\* C10: the body of every collected routine ends with a return sequence
\* (kills, then a ReturnStmt), so running the body ends in a return unless
\* it runs forever
C10_BodiesEndWithReturn ==
    \A i \in 1..Len(block_defs) :
        LET body == block_defs[i].body
        IN  /\ Len(body.stmts) >= 1
            /\ IsReturnSequence(body.stmts[Len(body.stmts)])
            /\ \A world \in Worlds : Exec(body, Env0, world).status \in {"return", "fuel"}

\* a routine whose author wrote a loop and no return was collected
C10_Witness ==
    /\ Len(block_defs) = 1
    /\ Len(block_defs[1].body.stmts) = 2
    /\ block_defs[1].body.stmts[1].kind = "WhileStmt"

\* ---- the paths of a rewritten tree ----------------------------------------
\* What the executions of a tree can do to one variable, whatever the
\* conditions evaluate to: every conditional may take either arm and every
\* loop may run any number of times.  A variable is "none" before it is
\* declared, "live" once declared, "dead" once killed after that, and "bad"
\* once it was declared while live or killed while not live.
VarStates == {"none", "live", "dead", "bad"}

Declare(st) == IF st \in {"none", "dead"} THEN "live" ELSE "bad"
Kill(st)    == IF st = "live" THEN "dead" ELSE "bad"

\* the states a path ends in: falling out of the statement, at a break that
\* no loop of the statement took, or at a return
Ends(normal, brk, ret) == [normal |-> normal, brk |-> brk, ret |-> ret]

RECURSIVE Flow(_, _, _)
RECURSIVE FlowList(_, _, _, _)
RECURSIVE FlowLoop(_, _, _, _)

\* the arms of a conditional and the body of a loop are statement lists
Flow(stmt, id, S) ==
    CASE stmt.kind = "StmtList" -> FlowList(stmt.stmts, 1, id, Ends(S, {}, {}))
      [] stmt.kind = "DefVarStmt" ->
            Ends(IF stmt.sym.id = id THEN {Declare(st) : st \in S} ELSE S, {}, {})
      [] stmt.kind = "KillVarStmt" ->
            Ends(IF stmt.sym.id = id THEN {Kill(st) : st \in S} ELSE S, {}, {})
      [] stmt.kind = "IfStmt" ->
            LET t == FlowList(stmt.branch_true.stmts, 1, id, Ends(S, {}, {}))
                f == FlowList(stmt.branch_false.stmts, 1, id, Ends(S, {}, {}))
            IN  Ends(t.normal \cup f.normal, t.brk \cup f.brk, t.ret \cup f.ret)
      [] stmt.kind = "WhileStmt" -> FlowLoop(stmt.body.stmts, id, S, TRUE)
      [] stmt.kind = "LoopStmt" -> FlowLoop(stmt.body.stmts, id, S, FALSE)
      [] stmt.kind = "UntilRegion" -> Flow(stmt.body, id, S)
      [] stmt.kind = "BreakStmt" -> Ends({}, S, {})
      [] stmt.kind = "ReturnStmt" -> Ends({}, {}, S)
      [] OTHER -> Ends(S, {}, {})

FlowList(ss, i, id, acc) ==
    IF i > Len(ss) THEN acc
    ELSE LET r == Flow(ss[i], id, acc.normal)
             brk == acc.brk \cup r.brk
             ret == acc.ret \cup r.ret
         IN  \* no path falls out of ss[i]: the rest of the list is not reached
             IF r.normal = {} THEN Ends({}, brk, ret)
             ELSE FlowList(ss, i + 1, id, Ends(r.normal, brk, ret))

\* body: the statements of the loop body; head: the states at the top of the
\* loop.  A loop with a condition is left when the condition fails there, any
\* loop is left by a break in its body.
FlowLoop(body, id, head, conditional) ==
    LET r == FlowList(body, 1, id, Ends(head, {}, {}))
    IN  IF r.normal \subseteq head
        THEN Ends((IF conditional THEN head ELSE {}) \cup r.brk, {}, r.ret)
        ELSE FlowLoop(body, id, head \cup r.normal, conditional)

VarIds == {created[k].id : k \in {i \in 1..Len(created) : created[i].kind = "variable"}}

\* every path through the tree that is over has killed the variable exactly
\* once after each of its declarations; no path leaves the tree at a break
PairedIn(tree, id) ==
    LET r == Flow(tree, id, {"none"})
    IN  r.normal \cup r.ret \subseteq {"none", "dead"} /\ r.brk = {}

\* C11: in every collected routine body, and in the rewritten top-level
\* sequence, every path from the declaration of a loop counter to the exit
\* (the loop left by its condition, by a break, or by a return in its body)
\* runs exactly one KillVarStmt for that counter
C11_OneKillPerPath ==
    [][/\ block_defs' # block_defs =>
            \A id \in VarIds : PairedIn(Last(block_defs').body, id)
       /\ pc' = "done" =>
            \A id \in VarIds : PairedIn(StmtList(stmts'), id)
      ]_vars

\* a routine was collected whose counted loop is left by a break in one arm
\* of a conditional and by a return in the other
C11_Witness ==
    /\ Len(block_defs) = 1
    /\ Len(block_defs[1].body.stmts) = 2
    /\ block_defs[1].body.stmts[1].kind = "StmtList"
    /\ Len(block_defs[1].body.stmts[1].stmts) = 4
    /\ LET loop == block_defs[1].body.stmts[1].stmts[3]
           id == block_defs[1].body.stmts[1].stmts[1].sym.id
           r == Flow(loop.body, id, {"live"})
       IN  r.brk = {"live"} /\ r.ret = {"dead"}

\* C12: when the analysis of a statement raised, no statement after it is
\* analysed and the outputs hold no partial result: _block_defs holds no
\* routine collected before the failure and _stmts no rewritten sequence
C12_AllOrNothing ==
    pc = "error" =>
        /\ block_defs = <<>>
        /\ stmts = <<>>
        /\ ~ ENABLED Next

\* the current scope changed in its lifetime tracking only, as given
Tracking(active, cleaned) ==
    /\ Len(scopes') = Len(scopes)
    /\ Front(scopes') = Front(scopes)
    /\ Last(scopes') = [Last(scopes) EXCEPT !.active_vars = active,
                                             !.cleaned_vars = cleaned]

\* C13: activate_var of a symbol in the scope's active list raises, kill_var
\* of a symbol not in it raises, and a call that raises leaves the active
\* list and the cleaned set as they were; activate_var that succeeds appends
\* exactly that symbol, kill_var that succeeds removes exactly that symbol
C13_ActivateKillErrors ==
    [][\A sym \in ScopeSyms :
         LET cur == Last(scopes)
             active == cur.active_vars
         IN  /\ Scope_activate_var(sym) =>
                  IF sym \in Range(active)
                  THEN err' # "" /\ Tracking(active, cur.cleaned_vars)
                  ELSE err' = "" /\ Tracking(Append(active, sym), cur.cleaned_vars)
             /\ Scope_kill_var(sym) =>
                  /\ sym \notin Range(active) => err' # ""
                  /\ err' # "" => Tracking(active, cur.cleaned_vars)
                  /\ err' = "" =>
                        /\ Len(Last(scopes').active_vars) = Len(active) - 1
                        /\ Tracking(SelectSeq(active, LAMBDA x : x # sym),
                                    cur.cleaned_vars \cup {sym})
      ]_vars

\* a symbol was activated and killed, and killing it once more raised while
\* another symbol stayed active
C13_Witness ==
    /\ last.stmt.kind = "kill_var"
    /\ err = "Attempted to kill an inactive variable"
    /\ last.stmt.sym \in Last(scopes).cleaned_vars
    /\ Len(Last(scopes).active_vars) = 1

\* the scopes a walk upward from the current scope reaches through branch
\* scopes only: the current one, and every ancestor below which, down to the
\* current one, all scopes are branch scopes (the nearest block scope is the
\* topmost of them)
BlockLocalScopes(chain) ==
    {i \in 1..Len(chain) : \A j \in (i+1)..Len(chain) : ~ chain[j].is_block}

DeclaredLocally(chain, sym) ==
    \E i \in BlockLocalScopes(chain) : sym \in Range(chain[i].syms)

\* C14: is_block_local_var(sym) is true exactly when sym is declared in the
\* current scope or in an ancestor reached through branch scopes only, the
\* nearest enclosing block scope included and nothing above it; kill_var of a
\* symbol for which it is false (declared only in a sibling branch, or only
\* above the current block) raises the not-local error and changes nothing
C14_BlockLocal ==
    [][\A sym \in ScopeSyms :
         /\ Scope_is_block_local_var(sym) =>
                last'.res = Bool(DeclaredLocally(scopes, sym))
         /\ (Scope_kill_var(sym) /\ ~ DeclaredLocally(scopes, sym)) =>
                /\ err' = "Attempted to kill a variable that isn't local to the current block"
                /\ scopes' = scopes
         /\ (Scope_kill_var(sym) /\ DeclaredLocally(scopes, sym)) =>
                err' # "Attempted to kill a variable that isn't local to the current block"
      ]_vars

\* kill_var raised in a block scope nested in the block scope where the
\* symbol is declared and active
C14_Witness ==
    /\ last.stmt.kind = "kill_var"
    /\ err = "Attempted to kill a variable that isn't local to the current block"
    /\ Len(scopes) = 2
    /\ Last(scopes).is_block
    /\ last.stmt.sym \in Range(scopes[1].syms)
    /\ last.stmt.sym \in Range(scopes[1].active_vars)

Max(S) == CHOOSE x \in S : \A y \in S : y <= x

\* where a scope declares routines of that name, in order of declaration
BlockPositions(scope, literal) ==
    {k \in 1..Len(scope.syms) :
        scope.syms[k].kind = "block" /\ scope.syms[k].literal = literal}

OnChain(chain) == UNION {Range(chain[i].syms) : i \in 1..Len(chain)}

\* C15: routines of the same name are different symbols with different ids,
\* and a call by name resolves to the routine of that name declared last in
\* the nearest scope of the caller's chain that declares one: to the one
\* defined in the caller's scope when there is one, never to one declared in
\* a scope that is not on the caller's chain
C15_SameNameDisjointScopes ==
    [][/\ \A i, j \in 1..Len(created') :
            (i # j /\ created'[i].kind = "block" /\ created'[j].kind = "block")
                => created'[i].id # created'[j].id
       /\ \A n \in Names :
            (Analysed(CallStmt(IdentExpression(n))) /\ pc' = "run") =>
                LET sym == last'.res.name.sym
                    declaring == {i \in 1..Len(scopes) : BlockPositions(scopes[i], n) # {}}
                    near == scopes[Max(declaring)]
                IN  /\ declaring # {}
                    /\ sym = near.syms[Max(BlockPositions(near, n))]
                    /\ \A k \in 1..Len(created) :
                          created[k] \notin OnChain(scopes) => sym # created[k]
      ]_vars

\* the two arms of a conditional each defined a routine `a`, and a call in
\* the second arm resolved to the second one
C15_Witness ==
    /\ pc = "run"
    /\ last.stmt = CallStmt(IdentExpression("a"))
    /\ FrameKinds = <<"analyze_program", "IfStmt">>
    /\ Last(frames).phase = "branch_false"
    /\ Len(block_defs) = 2
    /\ block_defs[1].name.sym.literal = "a"
    /\ block_defs[2].name.sym.literal = "a"
    /\ block_defs[1].name.sym \notin OnChain(scopes)
    /\ last.res.name = block_defs[2].name

\* the step enters an arm of a conditional
ArmEntered ==
    /\ pc' = "run"
    /\ Last(frames').kind = "IfStmt"
    /\ \/ Len(frames') = Len(frames) + 1
       \/ Len(frames') = Len(frames) /\ Last(frames').phase # Last(frames).phase

\* C16: the scope an IfStmt stands in has the same active list after the
\* statement as before it and all the while its arms are analysed, and each
\* arm starts in a fresh branch scope holding a copy of that list: what a
\* return in the true arm killed is active again in the false arm
C16_IfArmsIsolated ==
    [][/\ pc' = "run" =>
            \A i \in 2..Len(frames') :
                frames'[i].kind = "IfStmt" =>
                    /\ scopes'[i-1].id = frames'[i].entry.scope.id
                    /\ scopes'[i-1].active_vars = frames'[i].entry.scope.active_vars
       /\ ArmEntered =>
            /\ Len(scopes') = Len(frames')
            /\ ~ Last(scopes').is_block
            /\ Last(scopes').active_vars = Last(frames').entry.scope.active_vars
            /\ Last(scopes').cleaned_vars = {}
            /\ Last(scopes').syms = <<>>
       /\ (Analysed(Header("IfStmt")) /\ pc' = "run") =>
            /\ Last(scopes').id = Last(frames).entry.scope.id
            /\ Last(scopes').active_vars = Last(frames).entry.scope.active_vars
      ]_vars

\* in a counted loop a return in the true arm killed the counter, and a
\* return in the false arm emitted the same kill again
C16_Witness ==
    /\ pc = "run"
    /\ last.stmt = ReturnStmt
    /\ Last(frames).kind = "IfStmt"
    /\ Last(frames).phase = "branch_false"
    /\ Last(frames).entry.scope.active_vars # <<>>
    /\ Last(frames).branch_true = StmtList(<<ReturnSequence(Last(frames).entry.scope.active_vars)>>)
    /\ last.res = ReturnSequence(Last(frames).entry.scope.active_vars)

\* after the step the depth counters are what `entry` recorded
CountersAt(entry) ==
    /\ block_nesting_level' = entry.block_nesting_level
    /\ loop_nesting_level' = entry.loop_nesting_level
    /\ loop_nesting_stack' = entry.loop_nesting_stack

\* the scope at position i of the chain after the step was made in this step
MadeNow(i) == i > Len(scopes) \/ scopes'[i].id # scopes[i].id

\* C17: when sem_stmt returns normally, the current scope is the Scope object
\* that was current when the call began, and the routine depth, the
\* repetition depth and the stack of saved depths have the values they had
\* then; a scope made in a step is one its parent never had before, so a
\* scope that was closed is never current again
C17_ScopesLIFO ==
    [][/\ (last'.seq # last.seq /\ pc' = "run") =>
            IF Len(frames') < Len(frames)
            THEN \* a compound statement returns
                 /\ Last(scopes').id = Last(frames).entry.scope.id
                 /\ Len(scopes') = Len(frames')
                 /\ CountersAt(Last(frames).entry)
            ELSE IF last'.stmt = Header("StmtList")
            THEN \* the true arm of a conditional returns to case IfStmt
                 /\ scopes'[Len(scopes') - 1].id = Last(frames).entry.scope.id
                 /\ CountersAt(Last(frames).entry)
            ELSE \* a statement without a body returns
                 /\ Last(scopes').id = Last(scopes).id
                 /\ Len(scopes') = Len(scopes)
                 /\ CountersAt(Entry)
       /\ \A i \in 2..Len(scopes') :
            MadeNow(i) =>
                /\ ~ MadeNow(i - 1)
                /\ scopes'[i].id = Append(scopes[i-1].id, scopes[i-1].opened + 1)
                /\ scopes'[i-1].opened = scopes[i-1].opened + 1
       /\ \A i \in 1..Len(scopes') :
            ~ MadeNow(i) => scopes'[i].opened >= scopes[i].opened
       /\ scopes'[1].id = <<>>
      ]_vars

\* a routine defined in a loop returned: the loop's scope is current again,
\* the repetition depth is back from the stack and the routine depth is zero
C17_Witness ==
    /\ pc = "run"
    /\ last.stmt = Header("BlockDefStmt")
    /\ FrameKinds = <<"analyze_program", "LoopStmt">>
    /\ Last(scopes).opened = 1
    /\ Last(scopes).id = <<1>>
    /\ loop_nesting_level = 1
    /\ loop_nesting_stack = <<>>
    /\ block_nesting_level = 0

\* the routines of that name declared in scopes that are closed
ClosedBlocks(literal) ==
    {sym \in Range(created) :
        sym.kind = "block" /\ sym.literal = literal /\ sym \notin OnChain(scopes)}

\* C18: a scope that closes leaves the declarations of the scopes around it
\* as they were, so a routine defined in a conditional arm, a loop body or
\* a routine body resolves for calls while its scope is on the caller's
\* chain, and a call by its name after the scope closed raises the
\* resolution error, or resolves to another routine of that name that is
\* visible
C18_ClosedScopesHidden ==
    [][/\ \A i \in 1..Len(scopes') :
            ~ MadeNow(i) =>
                \/ scopes'[i].syms = scopes[i].syms
                \/ \* the scope that was current declares a new symbol
                   /\ i = Len(scopes)
                   /\ Len(created') = Len(created) + 1
                   /\ scopes'[i].syms = Append(scopes[i].syms, Last(created'))
       /\ \A n \in Names :
            Analysed(CallStmt(IdentExpression(n))) =>
                /\ VisibleBlocks(scopes, n) # {} =>
                      /\ pc' = "run"
                      /\ last'.res.name.kind = "SymExpression"
                      /\ last'.res.name.sym \notin ClosedBlocks(n)
                /\ (VisibleBlocks(scopes, n) = {} /\ ClosedBlocks(n) # {}) =>
                      Raised("Unable to find symbol in scope")
      ]_vars

\* a routine defined in a loop body was called in that body, and a call by
\* its name after the loop raised
C18_Witness ==
    /\ pc = "error"
    /\ err = "Unable to find symbol in scope"
    /\ last.stmt = CallStmt(IdentExpression("a"))
    /\ Len(frames) = 1
    /\ Len(block_defs) = 1
    /\ frames[1].out = <<LoopStmt(StmtList(<<CallStmt(block_defs[1].name)>>))>>
    /\ block_defs[1].name.sym.literal = "a"

\* the step changes nothing the analyzer keeps, the scopes aside
AnalyzerKept ==
    UNCHANGED <<next_sym_id, block_defs, stmts, block_nesting_level,
                loop_nesting_level, loop_nesting_stack, defnode, created>>

\* C19: a CommandStmt, DefVarStmt, WriteVarStmt or KillVarStmt is returned
\* as it is and changes no state of the analyzer, except that a CommandStmt
\* adds its selector to the selector set of the current scope and of no
\* other; a declare or kill written in the input activates and kills nothing
C19_PrimitivesPassThrough ==
    [][(/\ last'.seq # last.seq
        /\ last'.stmt.kind \in {"CommandStmt", "DefVarStmt", "WriteVarStmt", "KillVarStmt"}) =>
            /\ pc' = "run"
            /\ last'.res = last'.stmt
            /\ frames' = SetTop(frames, [Last(frames) EXCEPT !.out = Append(@, last'.stmt)])
            /\ AnalyzerKept
            /\ IF last'.stmt.kind = "CommandStmt"
               THEN /\ Len(scopes') = Len(scopes)
                    /\ Front(scopes') = Front(scopes)
                    /\ Last(scopes') =
                          [Last(scopes) EXCEPT !.unique_player_selectors =
                                                  @ \cup {last'.stmt.player_selector}]
               ELSE scopes' = scopes
      ]_vars

\* a declare written in the body of a counted loop passed through: the
\* counter alone is declared and active there; a command before it is in
\* the selector set of the body's scope only
C19_Witness ==
    /\ pc = "run"
    /\ last.stmt = DefVarStmt(UserSym)
    /\ Last(frames).kind = "TimesStmt"
    /\ Last(frames).out = <<CommandStmt("p1"), DefVarStmt(UserSym)>>
    /\ Last(scopes).active_vars = <<Last(frames).sym>>
    /\ Last(scopes).syms = <<>>
    /\ scopes[1].syms = <<Last(frames).sym>>
    /\ Len(scopes) = 2
    /\ scopes[2].unique_player_selectors = {"p1"}
    /\ scopes[1].unique_player_selectors = {}

LifetimeErrors ==
    {"Attempted to activate an already active variable",
     "Attempted to kill an inactive variable",
     "Attempted to kill a variable that isn't local to the current block"}

\* C20: no run of analyze_program raises one of the lifetime errors: in
\* every state every variable in the active list of a scope is block-local
\* to that scope, and the counter of a counted loop being analysed is active
\* in the scope the loop stands in, whatever the returns in its body killed
C20_LifetimeOpsNeverFail ==
    /\ err \notin LifetimeErrors
    /\ \A i \in 1..Len(scopes) :
          \A v \in Range(scopes[i].active_vars) :
              DeclaredLocally(SubSeq(scopes, 1, i), v)
    /\ pc = "run" =>
          /\ Len(scopes) = Len(frames)
          /\ \A i \in 2..Len(frames) :
                frames[i].kind = "TimesStmt" =>
                    /\ frames[i].sym \in Range(scopes[i-1].syms)
                    /\ frames[i].sym \in Range(scopes[i-1].active_vars)

\* the inner of two nested counted loops was analysed without error after a
\* return in its body had killed both counters in the body's scope; the
\* outer counter is still active around it
C20_Witness ==
    /\ pc = "run"
    /\ last.stmt.kind = "TimesStmt"
    /\ Last(frames).kind = "TimesStmt"
    /\ last.res.stmts[3].body.stmts[1] =
          ReturnSequence(<<Last(frames).sym, last.res.stmts[1].sym>>)
    /\ Last(frames).sym \in Range(scopes[Len(scopes) - 1].active_vars)
    /\ last.res.stmts[1].sym \in Last(scopes).cleaned_vars

\* the routines a tree calls, for the calls that are resolved
RECURSIVE CallsIn(_)
CallsIn(node) ==
    IF node.kind = "CallStmt"
    THEN IF node.name.kind = "SymExpression" THEN {node.name.sym} ELSE {}
    ELSE UNION {CallsIn(SubStmts(node)[i]) : i \in 1..Len(SubStmts(node))}

\* two collected routines, each with a call to the other in its body
CallEachOther(defs, i, j) ==
    /\ i # j
    /\ defs[j].name.sym \in CallsIn(defs[i].body)
    /\ defs[i].name.sym \in CallsIn(defs[j].body)

\* the routine definitions in progress, outermost first
RoutineFrames == {i \in 1..Len(frames) : frames[i].kind = "BlockDefStmt"}

\* the routines of that name declared inside the body of the routine of
\* frame i, in scopes on the caller's chain
Shadows(i, literal) == VisibleBlocks(SubSeq(scopes, i, Len(scopes)), literal)

\* the step begins the walk of a routine body: the routine's symbol is the
\* latest declaration of the scope the definition stands in, and the body
\* has a scope of its own with no declaration yet
DeclaredBeforeBody ==
    (Len(frames') = Len(frames) + 1 /\ Last(frames').kind = "BlockDefStmt") =>
        /\ Len(scopes') = Len(scopes) + 1
        /\ scopes'[Len(scopes)].syms = Append(Last(scopes).syms, Last(frames').sym)
        /\ Last(scopes').syms = <<>>
        /\ Last(frames').out = <<>>

\* C21 as stated: a routine is declared in the enclosing scope before its
\* body is analysed; a call by the name of the routine whose body it stands
\* in does not raise and resolves to that routine; and no two routines that
\* call each other are both collected
C21_RecursionResolves ==
    [][/\ DeclaredBeforeBody
       /\ \A n \in Names :
            (/\ Analysed(CallStmt(IdentExpression(n)))
             /\ RoutineFrames # {}
             /\ frames[Max(RoutineFrames)].sym.literal = n) =>
                /\ pc' = "run"
                /\ last'.res = CallStmt(SymExpression(frames[Max(RoutineFrames)].sym))
       /\ \A i, j \in 1..Len(block_defs') : ~ CallEachOther(block_defs', i, j)
      ]_vars

\* C21 amended: a routine is declared in the enclosing scope before its body
\* is analysed, so a call by the name of a routine whose body it stands in, at
\* any nesting, does not raise; it resolves to that routine unless a routine
\* of the same name was declared inside the body in a scope on the caller's
\* chain, and then to one of those.  Two routines that call each other are
\* both collected only when one is defined inside the body of the other (it
\* was begun later and collected earlier); of two routines neither of which
\* encloses the other, at most one holds a call to the other
C21_RecursionUnlessShadowed ==
    [][/\ DeclaredBeforeBody
       /\ \A n \in Names : \A i \in RoutineFrames :
            (/\ Analysed(CallStmt(IdentExpression(n)))
             /\ frames[i].sym.literal = n) =>
                /\ pc' = "run"
                /\ last'.res.kind = "CallStmt"
                /\ last'.res.name.kind = "SymExpression"
                /\ IF Shadows(i, n) = {}
                   THEN last'.res.name.sym = frames[i].sym
                   ELSE last'.res.name.sym \in Shadows(i, n)
       /\ \A i, j \in 1..Len(block_defs') :
            (CallEachOther(block_defs', i, j) /\ i < j) =>
                block_defs'[i].name.sym.id > block_defs'[j].name.sym.id
      ]_vars

\* a call to `a` in a conditional arm inside the body of `a` resolved to
\* the routine being defined
C21_Witness ==
    /\ pc = "run"
    /\ last.stmt = CallStmt(IdentExpression("a"))
    /\ FrameKinds = <<"analyze_program", "BlockDefStmt", "IfStmt">>
    /\ frames[2].sym.literal = "a"
    /\ frames[2].sym.id \notin DOMAIN defnode
    /\ last.res = CallStmt(SymExpression(frames[2].sym))
    /\ Last(frames).out = <<last.res>>

\* the symbols of the routines in a collected list
Collected(defs) == {defs[i].name.sym : i \in 1..Len(defs)}

\* the routines whose bodies are being walked enclose one another, the
\* outermost first: an enclosing routine has the smaller id, and none of
\* them is collected yet
EnclosingPending ==
    /\ \A i, j \in RoutineFrames : i < j => frames[i].sym.id < frames[j].sym.id
    /\ \A i \in RoutineFrames : frames[i].sym \notin Collected(block_defs)

\* C22: _block_defs grows only at its end, by the routine whose body walk
\* has just ended.  When a definition is reached, the routines collected so
\* far are those that ended before it (neither encloses the other): they
\* have smaller ids and stay before it in the list, so such routines are in
\* source order.  A routine that ends is collected while every routine that
\* encloses it is still absent from the list, although the enclosing ones
\* have the smaller ids: it is listed before them, and after the routines
\* collected since its own definition was reached, which are those defined
\* inside its body and have greater ids
C22_CollectedInCompletionOrder ==
    [][/\ \/ block_defs' = block_defs
          \/ /\ Last(frames).kind = "BlockDefStmt"
             /\ frames' = Front(frames)
             /\ Len(block_defs') = Len(block_defs) + 1
             /\ SubSeq(block_defs', 1, Len(block_defs)) = block_defs
             /\ Last(block_defs').name = SymExpression(Last(frames).sym)
             /\ \A i \in 1..Len(block_defs) :
                   IF i <= Last(frames).entry.collected
                   THEN \* collected before this definition was reached
                        block_defs[i].name.sym.id < Last(frames).sym.id
                   ELSE \* defined inside the body that has just ended
                        block_defs[i].name.sym.id > Last(frames).sym.id
       /\ (Len(frames') = Len(frames) + 1 /\ Last(frames').kind = "BlockDefStmt") =>
             /\ block_defs' = block_defs
             /\ \A c \in Collected(block_defs) : c.id < Last(frames').sym.id
       /\ EnclosingPending'
      ]_vars

\* a run ended on `def a { def b {} } def a {}`: the inner routine is listed
\* first with id 1, then the routine around it with id 0, then the routine
\* that follows them in the source with id 2
C22_Witness ==
    /\ pc = "done"
    /\ Len(block_defs) = 3
    /\ block_defs[1].name.sym = Symbol("b", 1, "block")
    /\ block_defs[2].name.sym = Symbol("a", 0, "block")
    /\ block_defs[3].name.sym = Symbol("a", 2, "block")
====
